---------------------------- MODULE Spec2Model ----------------------------
(***************************************************************************)
(* A model of the SCRAPPY table scraper (src/api/scrape.py).               *)
(*                                                                         *)
(* Strings are sequences of one-character strings, so that searching,      *)
(* replacing, trimming and number formatting are computed character by     *)
(* character as the Python code does.                                      *)
(*                                                                         *)
(* Three specifications share the module:                                  *)
(*   SpecUrl   build_url_from_template applied to bounded templates;       *)
(*   SpecPage  the per-page pipeline pick_table / infer_headers /          *)
(*             parse_rows / scrape_one_page applied to bounded documents;  *)
(*   Spec      the POST /api/scrape handler with its worker pool.          *)
(***************************************************************************)
EXTENDS Integers, Sequences, FiniteSets, Bags, TLC

VARIABLES
    u_template,   \* SpecUrl: the template argument
    u_page,       \* SpecUrl: the page argument
    u_url,        \* SpecUrl: the returned URL
    u_done,       \* SpecUrl: build_url_from_template has returned
    p_html,       \* SpecPage: what fetch_html returned (None or a document)
    p_spec,       \* SpecPage: the TableSpec
    p_out,        \* SpecPage: the values scrape_one_page computed
    p_done,       \* SpecPage: scrape_one_page has returned
    req,          \* Spec: the ScrapeRequest being handled (NoRequest before)
    pc,           \* Spec: where the handler's thread is
    futures,      \* Spec: the submitted tasks, [page, url] in submission order
    task,         \* Spec: each page's task: none, queued, running, done
    outcome,      \* Spec: what each finished task returned or raised
    fetch_log,    \* Spec: the URLs fetched, in the order the fetches began
    order,        \* Spec: the pages in the order their tasks finished
    snapshot,     \* Spec: the pages finished when as_completed was called
    collected,    \* Spec: the pages as_completed has yielded, in order
    results,      \* Spec: scrape_pages' results list
    aggregate,    \* Spec: what scrape_pages returned or that it raised
    response      \* Spec: the HTTP response (NoResponse before)

uvars == <<u_template, u_page, u_url, u_done>>

pvars == <<p_html, p_spec, p_out, p_done>>

rvars == <<req, pc, futures, task, outcome, fetch_log, order, snapshot,
           collected, results, aggregate, response>>

vars == <<uvars, pvars, rvars>>

-----------------------------------------------------------------------------
(* Strings *)

\* The longest template, counted in pieces of Pieces.
MaxPieces == 4

\* The largest page number handed to the URL builder (two digits, so that
\* the decimal formatting has more than one character).
MaxUrlPage == 12

DIGITS == <<"0", "1", "2", "3", "4", "5", "6", "7", "8", "9">>

IsDigit(c) == \E d \in 1..Len(DIGITS) : DIGITS[d] = c

\* str(n) for n >= 0: the decimal digits, most significant first.
RECURSIVE Str(_)
Str(n) == IF n < 10 THEN <<DIGITS[n + 1]>>
          ELSE Str(n \div 10) \o <<DIGITS[(n % 10) + 1]>>

\* s[i:i+len(pat)] == pat, with i a 1-based index.
MatchAt(s, i, pat) ==
    /\ i >= 1
    /\ i + Len(pat) - 1 <= Len(s)
    /\ \A k \in 1..Len(pat) : s[i + k - 1] = pat[k]

\* pat in s
Contains(s, pat) == \E i \in 1..(Len(s) + 1) : MatchAt(s, i, pat)

\* str.replace(old, new) with a non-empty old: a left-to-right scan that
\* replaces each occurrence it meets and resumes after it.
RECURSIVE ReplaceFrom(_, _, _, _)
ReplaceFrom(s, i, old, new) ==
    IF i > Len(s) THEN <<>>
    ELSE IF MatchAt(s, i, old) THEN new \o ReplaceFrom(s, i + Len(old), old, new)
    ELSE <<s[i]>> \o ReplaceFrom(s, i + 1, old, new)

Replace(s, old, new) == ReplaceFrom(s, 1, old, new)

-----------------------------------------------------------------------------
(* Optional values: None is the empty tuple, a value x is <<x>>. *)

None == <<>>

Some(x) == <<x>>

-----------------------------------------------------------------------------
(* HTML documents.  A document is the list of elements its selector        *)
(* matches, in document order; a table is the list of its tr rows; a row   *)
(* is the list of its cells; a cell has a tag (th or td) and a raw text.   *)

\* The most cells in a first row (data rows have up to one more).
MaxCells == 2

\* The most rows in a table.
MaxRows == 4

\* The whitespace characters that have no escape in a string: each is the
\* character itself between the quotes.
\* U+000B, vertical tab
VT == ""

\* U+001C, file separator
FS == ""

\* U+001D, group separator
GS == ""

\* U+001E, record separator
RS == ""

\* U+001F, unit separator
US == ""

\* U+0085, next line
NEL == ""

\* U+00A0, no-break space (&nbsp;)
NBSP == " "

\* The characters str.strip() removes, up to U+00FF: those str.isspace()
\* accepts. (It also accepts the spaces and separators U+1680, U+2000 to
\* U+200A, U+2028, U+2029, U+202F, U+205F and U+3000, which no text of the
\* model holds.)
WHITESPACE == {" ", "\t", "\n", "\r", "\f", VT, FS, GS, RS, US, NEL, NBSP}

IsSpace(c) == c \in WHITESPACE

RECURSIVE LStrip(_)
LStrip(s) == IF s # <<>> /\ IsSpace(Head(s)) THEN LStrip(Tail(s)) ELSE s

RECURSIVE RStrip(_)
RStrip(s) ==
    IF s # <<>> /\ IsSpace(s[Len(s)]) THEN RStrip(SubSeq(s, 1, Len(s) - 1)) ELSE s

\* cell.get_text(strip=True) of a cell holding one text node
get_text(cell) == RStrip(LStrip(cell.text))

\* row.find_all(tags): the cells of the row with one of the tags, in order
find_all(row, tags) == SelectSeq(row, LAMBDA c : c.tag \in tags)

\* f"col_{i}"
ColName(i) == <<"c", "o", "l", "_">> \o Str(i)

\* [c.get_text(strip=True) or f"col_{i+1}" for i, c in enumerate(cells)]
HeaderNames(cells) ==
    [i \in 1..Len(cells) |->
        IF get_text(cells[i]) # <<>> THEN get_text(cells[i]) ELSE ColName(i)]

Max(a, b) == IF a >= b THEN a ELSE b

\* A slip infer_headers could have: the header row stays among the data.
infer_headers_keeps_first(table, strategy) ==
    LET rows == table
    IN  IF rows = <<>> THEN [headers |-> <<>>, data_rows |-> <<>>]
        ELSE LET ths == find_all(rows[1], {"th"})
                 tds == find_all(rows[1], {"td"})
                 first_data == find_all(rows[1], {"td", "th"})
                 n == Max(Len(first_data), 1)
             IN  IF strategy \in {"auto", "th"} /\ ths # <<>>
                 THEN [headers |-> HeaderNames(ths), data_rows |-> rows]
                 ELSE IF strategy \in {"auto", "first_row"} /\ tds # <<>>
                 THEN [headers |-> HeaderNames(tds), data_rows |-> rows]
                 ELSE [headers |-> [i \in 1..n |-> ColName(i)], data_rows |-> rows]

infer_headers(table, strategy) ==
    LET rows == table
    IN  IF rows = <<>> THEN [headers |-> <<>>, data_rows |-> <<>>]
        ELSE LET ths == find_all(rows[1], {"th"})
                 tds == find_all(rows[1], {"td"})
                 first_data == find_all(rows[1], {"td", "th"})
                 n == Max(Len(first_data), 1)
             IN  IF strategy \in {"auto", "th"} /\ ths # <<>>
                 THEN [headers |-> HeaderNames(ths), data_rows |-> Tail(rows)]
                 ELSE IF strategy \in {"auto", "first_row"} /\ tds # <<>>
                 THEN [headers |-> HeaderNames(tds), data_rows |-> Tail(rows)]
                 ELSE [headers |-> [i \in 1..n |-> ColName(i)], data_rows |-> rows]

\* A slip parse_rows could have: long rows are not cut.
RECURSIVE parse_rows_no_truncate(_, _)
parse_rows_no_truncate(data_rows, ncols) ==
    IF data_rows = <<>> THEN <<>>
    ELSE LET cols == find_all(Head(data_rows), {"td", "th"})
             vals == [i \in 1..Len(cols) |-> get_text(cols[i])]
             rest == parse_rows_no_truncate(Tail(data_rows), ncols)
         IN  IF vals = <<>> THEN rest
             ELSE IF Len(vals) < ncols
             THEN <<vals \o [i \in 1..(ncols - Len(vals)) |-> <<>>]>> \o rest
             ELSE <<vals>> \o rest

RECURSIVE parse_rows(_, _)
parse_rows(data_rows, ncols) ==
    IF data_rows = <<>> THEN <<>>
    ELSE LET cols == find_all(Head(data_rows), {"td", "th"})
             vals == [i \in 1..Len(cols) |-> get_text(cols[i])]
             rest == parse_rows(Tail(data_rows), ncols)
         IN  IF vals = <<>> THEN rest
             ELSE IF Len(vals) < ncols
             THEN <<vals \o [i \in 1..(ncols - Len(vals)) |-> <<>>]>> \o rest
             ELSE IF Len(vals) > ncols
             THEN <<SubSeq(vals, 1, ncols)>> \o rest
             ELSE <<vals>> \o rest

\* The selectors of the model: one the selector engine accepts and one it
\* rejects as malformed.
Selectors == {"table", "table["}

\* soup.select(css_selector) raises on a selector it cannot parse.
SelectRaises(css_selector) == css_selector = "table["

\* pick_table: soup.select(css_selector) gives the document's matches;
\* None when there is none or table_index is past the last.
pick_table(html, spec) ==
    LET tables == html
    IN  IF tables = <<>> \/ spec.table_index >= Len(tables) THEN None
        ELSE Some(tables[spec.table_index + 1])

\* pd.DataFrame(data, columns=headers)
DataFrame(data, headers) == [columns |-> headers, data |-> data]

\* scrape_one_page after fetch_html returned html (None or Some(document)):
\* every value it computes, its return value in .result, and in .raised
\* whether it raised instead of returning (the selector was malformed).
ScrapeOnePage(html, spec) ==
    LET raised == html # None /\ SelectRaises(spec.css_selector)
        table == IF html = None \/ raised THEN None ELSE pick_table(html[1], spec)
        hd == IF table = None THEN [headers |-> <<>>, data_rows |-> <<>>]
              ELSE infer_headers(table[1], spec.header_row_strategy)
        data == parse_rows(hd.data_rows, Len(hd.headers))
    IN  [raised |-> raised,
         table |-> table,
         headers |-> hd.headers,
         data_rows |-> hd.data_rows,
         data |-> data,
         result |-> IF html = None \/ table = None \/ data = <<>> THEN None
                    ELSE Some(DataFrame(data, hd.headers))]

scrape_one_page(html, spec) == ScrapeOnePage(html, spec).result

-----------------------------------------------------------------------------
(* The documents of SpecPage *)

Tags == {"th", "td"}

\* Cell texts as indented markup has them: blank, and a word between
\* whitespace of several kinds.
Texts == { <<"\n", NBSP>>, <<"\n", " ", "a", "\t">> }

Cells == [tag : Tags, text : Texts]

RECURSIVE RowsOf(_)
RowsOf(n) ==
    IF n = 0 THEN { <<>> }
    ELSE LET shorter == RowsOf(n - 1)
         IN  shorter \cup { r \o <<c>> : r \in { x \in shorter : Len(x) = n - 1 },
                                          c \in Cells }

\* The first rows: every row of up to MaxCells cells.
FirstRows == RowsOf(MaxCells)

\* The rows after the first: a row of no cell, of one cell and of one cell
\* more than a first row can have, mixing both tags and all texts.
LaterRow(k) ==
    [j \in 1..k |->
        [tag |-> IF j % 2 = 0 THEN "th" ELSE "td",
         text |-> CASE (j + k) % 3 = 0 -> <<"\r", "\n", "a", NEL, " ">>
                    [] (j + k) % 3 = 1 -> <<"\f", VT, FS, GS>>
                    [] OTHER -> <<RS, "\t", "b", " ", "b", US, "\n">>]]

LaterRows == { LaterRow(k) : k \in {0, 1, MaxCells + 1} }

RECURSIVE TailsOf(_)
TailsOf(n) ==
    IF n = 0 THEN { <<>> }
    ELSE LET shorter == TailsOf(n - 1)
         IN  shorter \cup { t \o <<r>> : t \in shorter, r \in LaterRows }

\* Tables: no row at all, or a first row and up to MaxRows - 1 later rows.
Tables == { <<>> } \cup { <<f>> \o t : f \in FirstRows, t \in TailsOf(MaxRows - 1) }

Filler == << <<[tag |-> "td", text |-> <<"b", "\n">>]>> >>

\* The tables of at most one row.
SmallTables == { t \in Tables : Len(t) <= 1 }

\* Documents: no match, a table alone, or a small table after another match.
Documents ==
    { <<>> } \cup { <<t>> : t \in Tables } \cup { <<Filler, t>> : t \in SmallTables }

\* The documents with small tables only.
SmallDocuments ==
    { <<>> } \cup { <<t>> : t \in SmallTables } \cup { <<Filler, t>> : t \in SmallTables }

Strategies == {"auto", "th", "first_row"}

TableSpecs ==
    [css_selector : Selectors, table_index : 0..1, header_row_strategy : Strategies]

NoOut == [raised |-> FALSE, table |-> None, headers |-> <<>>, data_rows |-> <<>>, data |-> <<>>,
          result |-> None]

-----------------------------------------------------------------------------
(* URL Builder *)

PLACEHOLDER == <<"{", "p", "a", "g", "e", "}">>

PAGE_EQ == <<"p", "a", "g", "e", "=">>

\* PAGE_REGEX = ([?&])page=(\d+) matches at i.
PageRegexMatchAt(s, i) ==
    /\ i >= 1
    /\ i <= Len(s)
    /\ s[i] \in {"?", "&"}
    /\ MatchAt(s, i + 1, PAGE_EQ)
    /\ i + Len(PAGE_EQ) + 1 <= Len(s)
    /\ IsDigit(s[i + Len(PAGE_EQ) + 1])

\* PAGE_REGEX.search(s): the leftmost match position, 0 for no match.
PAGE_REGEX_search(s) ==
    IF \E i \in 1..Len(s) : PageRegexMatchAt(s, i)
    THEN CHOOSE i \in 1..Len(s) :
            /\ PageRegexMatchAt(s, i)
            /\ \A j \in 1..(i - 1) : ~PageRegexMatchAt(s, j)
    ELSE 0

\* The index of the last character of the greedy digit run that starts at i.
RECURSIVE DigitRunEnd(_, _)
DigitRunEnd(s, i) ==
    IF i + 1 <= Len(s) /\ IsDigit(s[i + 1]) THEN DigitRunEnd(s, i + 1) ELSE i

\* PAGE_REGEX.sub(lambda m: f"{m.group(1)}page={page}", s, count=1)
PAGE_REGEX_sub(s, page) ==
    LET m == PAGE_REGEX_search(s)
        e == DigitRunEnd(s, m + Len(PAGE_EQ) + 1)
    IN  IF m = 0 THEN s
        ELSE SubSeq(s, 1, m - 1) \o <<s[m]>> \o PAGE_EQ \o Str(page)
                \o SubSeq(s, e + 1, Len(s))

\* A slip the URL builder could have: the separator ignores an existing '?'.
build_url_always_question(template, page) ==
    IF Contains(template, PLACEHOLDER)
    THEN Replace(template, PLACEHOLDER, Str(page))
    ELSE IF PAGE_REGEX_search(template) # 0
    THEN PAGE_REGEX_sub(template, page)
    ELSE template \o <<"?">> \o PAGE_EQ \o Str(page)

build_url_from_template(template, page) ==
    IF Contains(template, PLACEHOLDER)
    THEN Replace(template, PLACEHOLDER, Str(page))
    ELSE IF PAGE_REGEX_search(template) # 0
    THEN PAGE_REGEX_sub(template, page)
    ELSE template \o (IF Contains(template, <<"?">>) THEN <<"&">> ELSE <<"?">>)
            \o PAGE_EQ \o Str(page)

\* The pieces templates are assembled from.
Pieces == { <<"x">>, <<"?">>, <<"&">>, <<"7">>, PAGE_EQ, PLACEHOLDER }

RECURSIVE TemplatesOf(_)
TemplatesOf(n) ==
    IF n = 0 THEN { <<>> }
    ELSE LET shorter == TemplatesOf(n - 1)
         IN  shorter \cup { t \o p : t \in shorter, p \in Pieces }

Templates == TemplatesOf(MaxPieces)

\* The page numbers handed to the URL builder: the first, the last of one
\* digit and the largest.
UrlPages == {1, 9, MaxUrlPage}

-----------------------------------------------------------------------------
(* Data frames *)

\* The missing value pd.concat fills in; no cell text equals it.
NaN == <<"nan">>

\* pd.DataFrame()
EmptyFrame == [columns |-> <<>>, data |-> <<>>]

\* df.empty
IsEmpty(df) == Len(df.columns) = 0 \/ Len(df.data) = 0

\* The index has a repeated label.
HasDuplicates(columns) ==
    \E i, j \in 1..Len(columns) : i < j /\ columns[i] = columns[j]

\* The labels of all the indexes, each once, in order of first appearance.
RECURSIVE UnionColumns(_, _)
UnionColumns(seen, labels) ==
    IF labels = <<>> THEN seen
    ELSE UnionColumns(
            IF \E k \in 1..Len(seen) : seen[k] = Head(labels) THEN seen
            ELSE Append(seen, Head(labels)),
            Tail(labels))

RECURSIVE AllLabels(_)
AllLabels(frames) ==
    IF frames = <<>> THEN <<>> ELSE Head(frames).columns \o AllLabels(Tail(frames))

\* A row of a frame with unique columns moved onto new columns by label.
Reindex(row, columns, new_columns) ==
    [k \in 1..Len(new_columns) |->
        IF \E i \in 1..Len(columns) : columns[i] = new_columns[k]
        THEN row[CHOOSE i \in 1..Len(columns) : columns[i] = new_columns[k]]
        ELSE NaN]

RECURSIVE StackRows(_, _)
StackRows(frames, new_columns) ==
    IF frames = <<>> THEN <<>>
    ELSE LET f == Head(frames)
         IN  (IF f.columns = new_columns THEN f.data
              ELSE [k \in 1..Len(f.data) |-> Reindex(f.data[k], f.columns, new_columns)])
             \o StackRows(Tail(frames), new_columns)

\* What a merge by position into the first frame's columns would do.
pd_concat_by_position(frames) ==
    LET n == Len(frames[1].columns)
        RECURSIVE Stack(_)
        Stack(fs) ==
            IF fs = <<>> THEN <<>>
            ELSE [k \in 1..Len(Head(fs).data) |->
                    [i \in 1..n |-> IF i <= Len(Head(fs).data[k])
                                    THEN Head(fs).data[k][i] ELSE <<>>]]
                 \o Stack(Tail(fs))
    IN  [raised |-> FALSE,
         df |-> [columns |-> frames[1].columns, data |-> Stack(frames)]]

\* pd.concat(frames, ignore_index=True) of one or more frames: the columns
\* are the first frame's when all frames have equal columns, else the union
\* of the labels; a frame whose columns are not the new columns is reindexed
\* by label, which raises when its labels repeat.
pd_concat(frames) ==
    LET same == \A k \in 1..Len(frames) : frames[k].columns = frames[1].columns
        new_columns == IF same THEN frames[1].columns
                       ELSE UnionColumns(<<>>, AllLabels(frames))
    IN  IF \E k \in 1..Len(frames) :
              frames[k].columns # new_columns /\ HasDuplicates(frames[k].columns)
        THEN [raised |-> TRUE, df |-> EmptyFrame]
        ELSE [raised |-> FALSE,
              df |-> [columns |-> new_columns, data |-> StackRows(frames, new_columns)]]

\* The tail of scrape_pages: the empty frame for no result, else the
\* concatenation.
ConcatResults(res) ==
    IF res = <<>> THEN [raised |-> FALSE, df |-> EmptyFrame] ELSE pd_concat(res)

\* df.to_dict(orient="records"): each row as a mapping from label to value;
\* of a repeated label the last column is kept.
to_dict_records(df) ==
    [k \in 1..Len(df.data) |->
        [c \in { df.columns[i] : i \in 1..Len(df.columns) } |->
            df.data[k][CHOOSE i \in 1..Len(df.columns) :
                          /\ df.columns[i] = c
                          /\ \A j \in (i + 1)..Len(df.columns) : df.columns[j] # c]]]

\* df.to_csv(index=False), as its lines of fields: the header line, then one
\* line per row with a missing value written as the empty field.
to_csv(df) ==
    <<df.columns>> \o
    [k \in 1..Len(df.data) |->
        [i \in 1..Len(df.columns) |->
            IF df.data[k][i] = NaN THEN <<>> ELSE df.data[k][i]]]

\* json.dumps(..., allow_nan=False) in JSONResponse raises on a NaN.
JsonRaises(df) ==
    \E k \in 1..Len(df.data) : \E i \in 1..Len(df.data[k]) : df.data[k][i] = NaN

-----------------------------------------------------------------------------
(* The requests and the pages of Spec *)

\* The largest page number of a request.
MaxPage == 3

\* The largest concurrency of a request.
MaxConc == 2

Pages == 1..MaxPage

TH(t) == [tag |-> "th", text |-> t]

TD(t) == [tag |-> "td", text |-> t]

\* The pages the remote site may serve.
DocNoTable == <<>>

DocHeaderOnly == << << <<TH(<<"a">>)>> >> >>

DocAB == << << <<TH(<<"\n", " ", "a", "\n">>), TH(<<"b">>)>>,
               <<TD(<<"\t", "1">>), TD(<<"2", "\r", "\n">>)>>,
               <<TD(<<"3">>), TD(<<"4">>)>> >> >>

DocCAD == << << <<TH(<<"c">>), TH(<<"a">>), TH(<<"d">>)>>,
                <<TD(<<"5">>), TD(<<"6">>), TD(<<"7">>)>> >> >>

DocAA == << << <<TH(<<"a">>), TH(<<"a">>)>>,
               <<TD(<<"8">>), TD(<<"9">>)>> >> >>

\* What fetch_html may return: None on any failure, else the document.
Bodies == { None, Some(DocNoTable), Some(DocHeaderOnly), Some(DocAB),
            Some(DocCAD), Some(DocAA) }

TEMPLATE == <<"x", "?", "p", "a", "g", "e", "=", "7">>

Formats == {"csv", "json"}

\* The requests that pass the field validation of ScrapeRequest.
Requests ==
    [template : {TEMPLATE},
     css_selector : Selectors,
     table_index : {0},
     header_strategy : {"auto"},
     start_page : Pages,
     end_page : Pages,
     concurrency : 1..MaxConc,
     max_pages_per_request : Pages,
     format : Formats]

NoRequest == [template |-> <<>>, css_selector |-> "table", table_index |-> 0,
              header_strategy |-> "auto", start_page |-> 1, end_page |-> 1,
              concurrency |-> 1, max_pages_per_request |-> 1, format |-> "csv"]

NoResponse == [status |-> 0, kind |-> "none", rows |-> 0, body |-> <<>>]

NoOutcome == [raised |-> FALSE, result |-> None]

NoAggregate == [raised |-> FALSE, df |-> EmptyFrame]

\* SpecUrl's variables while another specification runs.
UrlIdle ==
    /\ u_template = <<>>
    /\ u_page = 1
    /\ u_url = <<>>
    /\ u_done = FALSE

\* SpecPage's variables while another specification runs.
PageIdle ==
    /\ p_html = None
    /\ p_spec = [css_selector |-> "table", table_index |-> 0,
                 header_row_strategy |-> "auto"]
    /\ p_out = NoOut
    /\ p_done = FALSE

\* Spec's variables while another specification runs, and its first state.
HandlerIdle ==
    /\ req = NoRequest
    /\ pc = "idle"
    /\ futures = <<>>
    /\ task = [p \in Pages |-> "none"]
    /\ outcome = [p \in Pages |-> NoOutcome]
    /\ fetch_log = <<>>
    /\ order = <<>>
    /\ snapshot = {}
    /\ collected = <<>>
    /\ results = <<>>
    /\ aggregate = NoAggregate
    /\ response = NoResponse

-----------------------------------------------------------------------------
(* SpecUrl: build_url_from_template on one template and page *)

InitUrl ==
    /\ u_template \in Templates
    /\ u_page \in UrlPages
    /\ u_url = <<>>
    /\ u_done = FALSE
    /\ PageIdle
    /\ HandlerIdle

BuildUrl ==
    /\ ~u_done
    /\ u_url' = build_url_from_template(u_template, u_page)
    /\ u_done' = TRUE
    /\ UNCHANGED <<u_template, u_page>>
    /\ UNCHANGED <<pvars, rvars>>

NextUrl == BuildUrl

SpecUrl == InitUrl /\ [][NextUrl]_vars

-----------------------------------------------------------------------------
(* SpecPage: scrape_one_page on one fetched page *)

InitPage ==
    /\ p_html \in {None} \cup { Some(d) : d \in Documents }
    /\ p_spec \in TableSpecs
    \* a second table index and a malformed selector meet the small documents
    /\ \/ p_spec.table_index = 0 /\ p_spec.css_selector = "table"
       \/ p_html \in {None} \cup { Some(d) : d \in SmallDocuments }
    /\ p_out = NoOut
    /\ p_done = FALSE
    /\ UrlIdle
    /\ HandlerIdle

ScrapePage ==
    /\ ~p_done
    /\ p_out' = ScrapeOnePage(p_html, p_spec)
    /\ p_done' = TRUE
    /\ UNCHANGED <<p_html, p_spec>>
    /\ UNCHANGED <<uvars, rvars>>

NextPage == ScrapePage

SpecPage == InitPage /\ [][NextPage]_vars

-----------------------------------------------------------------------------
(* Spec: one request to POST /api/scrape *)

\* list(range(a, b + 1))
PageList(a, b) == [i \in 1..(b - a + 1) |-> a + i - 1]

\* TableSpec(req.css_selector, int(req.table_index), req.header_strategy)
TableSpecOf(r) ==
    [css_selector |-> r.css_selector, table_index |-> r.table_index,
     header_row_strategy |-> r.header_strategy]

\* A slip the second check could have: a request of exactly the allowed
\* number of pages is turned away.
Validate_off_by_one(r) ==
    IF r.end_page < r.start_page THEN "end_page must be >= start_page"
    ELSE IF r.end_page - r.start_page + 1 >= r.max_pages_per_request
    THEN "Too many pages"
    ELSE ""

\* The two checks at the head of scrape: the 400 detail, or "" to go on.
Validate(r) ==
    IF r.end_page < r.start_page THEN "end_page must be >= start_page"
    ELSE IF r.end_page - r.start_page + 1 > r.max_pages_per_request
    THEN "Too many pages"
    ELSE ""

\* POST /api/scrape arrives. A request that fails a check is answered 400 at
\* once; otherwise the handler builds the page list and scrape_pages opens
\* the pool, with no task submitted yet.
Scrape(r) ==
    /\ pc = "idle"
    /\ req' = r
    /\ IF Validate(r) # ""
       THEN /\ response' = [status |-> 400, kind |-> "error", rows |-> 0, body |-> <<>>]
            /\ pc' = "responded"
       ELSE /\ pc' = "submitting"
            /\ UNCHANGED response
    /\ UNCHANGED <<futures, task, outcome, fetch_log, order, snapshot, collected,
                   results, aggregate>>
    /\ UNCHANGED <<uvars, pvars>>

\* One turn of the comprehension that fills the futures dict: the URL of the
\* next page is built and its task submitted to the pool, while the workers
\* already run the tasks submitted before. After the last page the dict is
\* complete.
Submit ==
    /\ pc = "submitting"
    /\ LET pages == PageList(req.start_page, req.end_page)
           p == pages[Len(futures) + 1]
       IN  /\ futures' = Append(futures,
                                [page |-> p,
                                 url |-> build_url_from_template(req.template, p)])
           /\ task' = [task EXCEPT ![p] = "queued"]
           /\ pc' = IF Len(futures) + 1 = Len(pages) THEN "submitted" ELSE "submitting"
    /\ UNCHANGED <<req, outcome, fetch_log, order, snapshot, collected, results,
                   aggregate, response>>
    /\ UNCHANGED <<uvars, pvars>>

\* A pool that starts a thread for every task.
WorkerFree_unbounded == TRUE

\* The pages whose task a worker holds: taken from the queue and not done.
Held == { p \in Pages : task[p] \in {"running", "fetching"} }

\* The pool has a free worker: fewer than max_workers tasks are held.
WorkerFree == Cardinality(Held) < req.concurrency

\* A worker takes the task at the head of the pool's queue (i is its place
\* in the submission order) and enters scrape_one_page; CanStartTask is
\* when.
CanStartTask(i) ==
    /\ pc \in {"submitting", "submitted", "collecting", "unwinding"}
    /\ i \in 1..Len(futures)
    /\ task[futures[i].page] = "queued"
    /\ \A j \in 1..(i - 1) : task[futures[j].page] # "queued"
    /\ WorkerFree

StartTask(i) ==
    /\ CanStartTask(i)
    /\ task' = [task EXCEPT ![futures[i].page] = "running"]
    /\ UNCHANGED <<req, pc, futures, outcome, fetch_log, order, snapshot,
                   collected, results, aggregate, response>>
    /\ UNCHANGED <<uvars, pvars>>

\* The URL the task of page p was submitted with.
UrlOf(p) == futures[CHOOSE i \in 1..Len(futures) : futures[i].page = p].url

\* The worker that holds the task of page p calls fetch_html: the request
\* for the page's URL goes out.
FetchHtml(p) ==
    /\ task[p] = "running"
    /\ task' = [task EXCEPT ![p] = "fetching"]
    /\ fetch_log' = Append(fetch_log, UrlOf(p))
    /\ UNCHANGED <<req, pc, futures, outcome, order, snapshot, collected,
                   results, aggregate, response>>
    /\ UNCHANGED <<uvars, pvars>>

\* The fetch of a task comes back (body b, None for any failure) and the
\* rest of scrape_one_page runs: the future is done.
FinishTask(p, b) ==
    /\ task[p] = "fetching"
    /\ LET out == ScrapeOnePage(b, TableSpecOf(req))
       IN  outcome' = [outcome EXCEPT ![p] = [raised |-> out.raised,
                                              result |-> out.result]]
    /\ task' = [task EXCEPT ![p] = "done"]
    /\ order' = Append(order, p)
    /\ UNCHANGED <<req, pc, futures, fetch_log, snapshot, collected, results,
                   aggregate, response>>
    /\ UNCHANGED <<uvars, pvars>>

\* as_completed(futures) is called: it notes the futures already finished.
AsCompleted ==
    /\ pc = "submitted"
    /\ snapshot' = { p \in Pages : task[p] = "done" }
    /\ pc' = "collecting"
    /\ UNCHANGED <<req, futures, task, outcome, fetch_log, order, collected,
                   results, aggregate, response>>
    /\ UNCHANGED <<uvars, pvars>>

IsCollected(p) == \E k \in 1..Len(collected) : collected[k] = p

\* The futures as_completed may yield next: any of those finished before it
\* was called (they are kept in a set), and after them the others in the
\* order they finish.
Yieldable ==
    LET early == { p \in snapshot : ~IsCollected(p) }
        late == { k \in 1..Len(order) :
                    order[k] \notin snapshot /\ ~IsCollected(order[k]) }
    IN  IF early # {} THEN early
        ELSE IF late # {} THEN { order[CHOOSE k \in late : \A m \in late : k <= m] }
        ELSE {}

\* One turn of the loop over as_completed: fut.result() raises what the task
\* raised, which leaves the loop and the with block; otherwise a frame that
\* is not None and not empty is appended to results.
CanCollect(p) == pc = "collecting" /\ p \in Yieldable

Collect(p) ==
    /\ CanCollect(p)
    /\ collected' = Append(collected, p)
    /\ IF outcome[p].raised
       THEN /\ pc' = "unwinding"
            /\ UNCHANGED results
       ELSE /\ pc' = pc
            /\ results' = IF outcome[p].result # None /\ ~IsEmpty(outcome[p].result[1])
                          THEN Append(results, outcome[p].result[1])
                          ELSE results
    /\ UNCHANGED <<req, futures, task, outcome, fetch_log, order, snapshot,
                   aggregate, response>>
    /\ UNCHANGED <<uvars, pvars>>

AllTasksDone == \A i \in 1..Len(futures) : task[futures[i].page] = "done"

\* The loop ends when every future was yielded; the with block is left (all
\* tasks are done) and scrape_pages concatenates the results and returns,
\* or raises what pd.concat raised.
CanConcat == pc = "collecting" /\ Len(collected) = Len(futures)

Concat ==
    /\ CanConcat
    /\ aggregate' = ConcatResults(results)
    /\ pc' = "returned"
    /\ UNCHANGED <<req, futures, task, outcome, fetch_log, order, snapshot,
                   collected, results, response>>
    /\ UNCHANGED <<uvars, pvars>>

\* A pool whose shutdown does not wait for the tasks still queued or running.
CanUnwind_without_wait == pc = "unwinding"

\* A raised task left the with block: the pool's shutdown waits for every
\* task, then the exception leaves scrape_pages and the handler.
CanUnwind == pc = "unwinding" /\ AllTasksDone

Unwind ==
    /\ CanUnwind
    /\ aggregate' = [raised |-> TRUE, df |-> EmptyFrame]
    /\ pc' = "returned"
    /\ UNCHANGED <<req, futures, task, outcome, fetch_log, order, snapshot,
                   collected, results, response>>
    /\ UNCHANGED <<uvars, pvars>>

\* The response scrape builds from what scrape_pages gave: an exception
\* that leaves the handler is answered 500.
ResponseFor(r, agg) ==
    IF agg.raised
    THEN [status |-> 500, kind |-> "error", rows |-> 0, body |-> <<>>]
    ELSE IF IsEmpty(agg.df)
    THEN [status |-> 200, kind |-> "empty", rows |-> 0, body |-> <<>>]
    ELSE IF r.format = "json"
    THEN IF JsonRaises(agg.df)
         THEN [status |-> 500, kind |-> "error", rows |-> 0, body |-> <<>>]
         ELSE [status |-> 200, kind |-> "json", rows |-> Len(agg.df.data),
               body |-> to_dict_records(agg.df)]
    ELSE [status |-> 200, kind |-> "csv", rows |-> Len(to_csv(agg.df)) - 1,
          body |-> to_csv(agg.df)]

Respond ==
    /\ pc = "returned"
    /\ response' = ResponseFor(req, aggregate)
    /\ pc' = "responded"
    /\ UNCHANGED <<req, futures, task, outcome, fetch_log, order, snapshot,
                   collected, results, aggregate>>
    /\ UNCHANGED <<uvars, pvars>>

Init ==
    /\ HandlerIdle
    /\ UrlIdle
    /\ PageIdle

Next ==
    \/ \E r \in Requests : Scrape(r)
    \/ Submit
    \/ \E i \in 1..MaxPage : StartTask(i)
    \/ \E p \in Pages : FetchHtml(p)
    \/ \E p \in Pages, b \in Bodies : FinishTask(p, b)
    \/ AsCompleted
    \/ \E p \in Pages : Collect(p)
    \/ Concat
    \/ Unwind
    \/ Respond

Spec == Init /\ [][Next]_vars

-----------------------------------------------------------------------------
(* Properties of the URL Builder *)

\* d is the decimal numeral of n: digits only, no leading zero, value n.
RECURSIVE NumeralValue(_)
NumeralValue(d) ==
    IF Len(d) = 0 THEN 0
    ELSE 10 * NumeralValue(SubSeq(d, 1, Len(d) - 1))
            + (CHOOSE v \in 0..9 : DIGITS[v + 1] = d[Len(d)])

IsNumeralOf(d, n) ==
    /\ Len(d) >= 1
    /\ \A k \in 1..Len(d) : IsDigit(d[k])
    /\ Len(d) > 1 => d[1] # "0"
    /\ NumeralValue(d) = n

\* The positions where a page query parameter (any value) starts in s.
PageParams(s) ==
    { i \in 1..Len(s) : s[i] \in {"?", "&"} /\ MatchAt(s, i + 1, PAGE_EQ) }

\* The positions where a page query parameter with a numeric value starts.
NumericPageParams(s) ==
    { i \in PageParams(s) : i + 6 <= Len(s) /\ IsDigit(s[i + 6]) }

PlaceholderStarts(s) ==
    { i \in 1..Len(s) : MatchAt(s, i, PLACEHOLDER) }

\* The template with each placeholder occurrence exchanged for numeral d,
\* position by position from i on.
RECURSIVE Substituted(_, _, _)
Substituted(s, i, d) ==
    IF i > Len(s) THEN <<>>
    ELSE (IF i \in PlaceholderStarts(s) THEN d
          ELSE IF \E k \in 1..5 : (i - k) \in PlaceholderStarts(s) THEN <<>>
          ELSE <<s[i]>>) \o Substituted(s, i + 1, d)

\* The last index of the run of digits that starts at i.
RunEnd(s, i) ==
    CHOOSE e \in i..Len(s) :
        /\ \A k \in i..e : IsDigit(s[k])
        /\ (e = Len(s) \/ ~IsDigit(s[e + 1]))

\* The page parameters of the query string of s: '?page=', or '&page='
\* after a '?'.
QueryPageParams(s) ==
    { i \in PageParams(s) : s[i] = "?" \/ \E j \in 1..(i - 1) : s[j] = "?" }

\* C5 as stated: rule (2) is taken whenever the template has a page= query
\* parameter, whatever its value, and then no second page parameter appears
\* in the URL.
C5_AnyPageParamIsReplaced ==
    (/\ u_done
     /\ PlaceholderStarts(u_template) = {}
     /\ QueryPageParams(u_template) # {})
        => Cardinality(QueryPageParams(u_url))
              = Cardinality(QueryPageParams(u_template))

\* C5 (amended): for every template and page n >= 1 the URL is
\* (1) the template with every {page} replaced by the numeral of n, if the
\*     template contains {page};
\* (2) else, if some '?page=' or '&page=' is directly followed by a digit, the
\*     template with the digit run of the first such parameter replaced by
\*     the numeral of n, and with as many page parameters as before;
\* (3) else the template followed by '&' (if it contains '?') or '?', then
\*     'page=' and the numeral of n.
C5_UrlRules ==
    u_done =>
        LET t == u_template
            d == Str(u_page)
        IN  /\ IsNumeralOf(d, u_page)
            /\ IF PlaceholderStarts(t) # {}
               THEN /\ u_url = Substituted(t, 1, d)
                    /\ PlaceholderStarts(u_url) = {}
               ELSE IF NumericPageParams(t) # {}
               THEN LET i == CHOOSE j \in NumericPageParams(t) :
                                \A k \in NumericPageParams(t) : j <= k
                        e == RunEnd(t, i + 6)
                    IN  /\ u_url = SubSeq(t, 1, i + 5) \o d \o SubSeq(t, e + 1, Len(t))
                        /\ Cardinality(PageParams(u_url)) = Cardinality(PageParams(t))
               ELSE /\ u_url = t \o (IF \E k \in 1..Len(t) : t[k] = "?"
                                     THEN <<"&">> ELSE <<"?">>) \o PAGE_EQ \o d
                    /\ Cardinality(PageParams(u_url)) = Cardinality(PageParams(t)) + 1

\* C5 witness: rule (2) has replaced a one-digit value by a two-digit page
\* number in a template that goes on after the value.
C5_Witness ==
    /\ u_done
    /\ PlaceholderStarts(u_template) = {}
    /\ NumericPageParams(u_template) # {}
    /\ u_page >= 10
    /\ u_template[Len(u_template)] = "x"
    /\ Len(u_url) = Len(u_template) + 1

-----------------------------------------------------------------------------
(* Properties of the Header/Row Extractor and the Row Normalizer *)

\* The text with the whitespace at both ends removed: the part between the
\* first and the last character that is not whitespace.
Trimmed(raw) ==
    LET solid == { k \in 1..Len(raw) : raw[k] \notin WHITESPACE }
    IN  IF solid = {} THEN <<>>
        ELSE LET lo == CHOOSE k \in solid : \A m \in solid : k <= m
                 hi == CHOOSE k \in solid : \A m \in solid : k >= m
             IN  [k \in 1..(hi - lo + 1) |-> raw[lo + k - 1]]

\* The cells of a row with the given tag, as the set of their positions.
CellsAt(row, tag) == { k \in 1..Len(row) : row[k].tag = tag }

\* The k-th smallest element of a finite set of numbers.
RECURSIVE Nth(_, _)
Nth(S, k) ==
    LET m == CHOOSE x \in S : \A y \in S : x <= y
    IN  IF k = 1 THEN m ELSE Nth(S \ {m}, k - 1)

\* names are the column names the cells at positions pos of row give.
NamesFrom(names, row, pos) ==
    /\ Len(names) = Cardinality(pos)
    /\ \A k \in 1..Len(names) :
          LET t == Trimmed(row[Nth(pos, k)].text)
          IN  names[k] = IF t = <<>> THEN <<"c", "o", "l", "_">> \o Str(k) ELSE t

\* The table infer_headers was given has at least one row.
PickedWithRows == p_done /\ p_out.table # None /\ p_out.table[1] # <<>>

\* C6: on a table with at least one row, a th rule (strategy th or auto,
\* first row has th cells) names the columns after the th cells; otherwise a
\* first_row rule (strategy first_row or auto, first row has td cells) names
\* them after the td cells; in both cases the data are the rows after the
\* first. Otherwise the columns are col_1..col_n, n = max(1, cells of the
\* first row), and all rows are data.
C6_HeaderRules ==
    PickedWithRows =>
        LET rows == p_out.table[1]
            first == rows[1]
            strategy == p_spec.header_row_strategy
            thRule == strategy \in {"th", "auto"} /\ CellsAt(first, "th") # {}
            firstRowRule == /\ ~thRule
                            /\ strategy \in {"first_row", "auto"}
                            /\ CellsAt(first, "td") # {}
            n == IF Len(first) >= 1 THEN Len(first) ELSE 1
        IN  /\ thRule =>
                /\ NamesFrom(p_out.headers, first, CellsAt(first, "th"))
                /\ p_out.data_rows = [k \in 1..(Len(rows) - 1) |-> rows[k + 1]]
            /\ firstRowRule =>
                /\ NamesFrom(p_out.headers, first, CellsAt(first, "td"))
                /\ p_out.data_rows = [k \in 1..(Len(rows) - 1) |-> rows[k + 1]]
            /\ (~thRule /\ ~firstRowRule) =>
                /\ Len(p_out.headers) = n
                /\ \A k \in 1..n : p_out.headers[k] = <<"c", "o", "l", "_">> \o Str(k)
                /\ p_out.data_rows = rows
            /\ (Len(p_out.data_rows) = Len(rows) - 1) <=> (thRule \/ firstRowRule)

\* C6 witness: strategy auto on a first row without th cells whose first td
\* cell is blank: the first_row rule named the columns, col_1 among them,
\* and left the first row out of the data.
C6_Witness ==
    /\ PickedWithRows
    /\ p_spec.header_row_strategy = "auto"
    /\ CellsAt(p_out.table[1][1], "th") = {}
    /\ Len(p_out.headers) = 2
    /\ p_out.headers[1] = <<"c", "o", "l", "_", "1">>
    /\ p_out.headers[2] = <<"a">>
    /\ Len(p_out.data_rows) = Len(p_out.table[1]) - 1
    /\ Len(p_out.data_rows) >= 1

\* The positions of the data rows that have at least one cell.
KeptRows(data_rows) == { k \in 1..Len(data_rows) : Len(data_rows[k]) > 0 }

\* C7: parse_rows keeps exactly the rows with at least one cell, in order,
\* each as its trimmed cell texts cut or padded with empty strings to the
\* header count; so every row of a page result has as many cells as the
\* page has headers.
C7_RowsNormalized ==
    (p_done /\ p_out.table # None) =>
        LET ncols == Len(p_out.headers)
            kept == KeptRows(p_out.data_rows)
        IN  /\ Len(p_out.data) = Cardinality(kept)
            /\ \A k \in 1..Len(p_out.data) :
                  LET src == p_out.data_rows[Nth(kept, k)]
                  IN  /\ Len(p_out.data[k]) = ncols
                      /\ \A i \in 1..ncols :
                            p_out.data[k][i] = IF i <= Len(src)
                                               THEN Trimmed(src[i].text)
                                               ELSE <<>>
            /\ p_out.result # None =>
                  /\ p_out.result[1].columns = p_out.headers
                  /\ p_out.result[1].data = p_out.data
                  /\ \A k \in 1..Len(p_out.result[1].data) :
                        Len(p_out.result[1].data[k]) = Len(p_out.result[1].columns)

\* C7 witness: a page result with two columns from data rows of no cell
\* (dropped), one cell (padded) and three cells (cut), in this order.
C7_Witness ==
    /\ p_done
    /\ p_out.result # None
    /\ Len(p_out.headers) = 2
    /\ Len(p_out.data_rows) = 3
    /\ Len(p_out.data_rows[1]) = 0
    /\ Len(p_out.data_rows[2]) = 1
    /\ Len(p_out.data_rows[3]) = 3
    /\ p_out.result[1].data = << << <<"b", " ", "b">>, <<>> >>,
                                 << <<>>, <<"b", " ", "b">> >> >>

-----------------------------------------------------------------------------
(* Properties of the Request Handler and the Page Aggregator *)

\* The request fails one of the handler's two checks.
Rejected(r) ==
    \/ r.end_page < r.start_page
    \/ (r.end_page - r.start_page + 1) > r.max_pages_per_request

\* The pages a request asks for.
Requested(r) == { p \in Pages : r.start_page <= p /\ p <= r.end_page }

\* scrape_pages has returned or raised for a request that passed the checks.
Returned == pc \in {"returned", "responded"} /\ ~Rejected(req)

\* The page's task gave a frame.
Succeeded(p) == task[p] = "done" /\ ~outcome[p].raised /\ outcome[p].result # None

FrameOf(p) == outcome[p].result[1]

\* The number of data rows the page's task gave (0 for a failed page).
RowsOf_(p) == IF Succeeded(p) THEN Len(FrameOf(p).data) ELSE 0

RECURSIVE SumOver(_)
SumOver(S) ==
    IF S = {} THEN 0
    ELSE LET p == CHOOSE x \in S : TRUE IN RowsOf_(p) + SumOver(S \ {p})

\* The successful pages of a sequence of pages, in its order.
SuccessfulIn(pages) == SelectSeq(pages, Succeeded)

\* The number of aggregate rows before the block of the k-th page of list.
RECURSIVE Offset(_, _)
Offset(list, k) == IF k <= 1 THEN 0 ELSE Offset(list, k - 1) + RowsOf_(list[k - 1])

\* The aggregate row holds the page's row: each cell under a column of the
\* cell's own name.
RowAppears(aggRow, aggCols, pageRow, pageCols) ==
    /\ Len(aggRow) = Len(aggCols)
    /\ \A i \in 1..Len(pageCols) :
          \E j \in 1..Len(aggCols) : aggCols[j] = pageCols[i] /\ aggRow[j] = pageRow[i]

\* The aggregate is the blocks of the pages of list, in the order of list.
BlocksInOrder(agg, list) ==
    /\ Len(agg.data) = Offset(list, Len(list) + 1)
    /\ \A k \in 1..Len(list) :
          \A n \in 1..RowsOf_(list[k]) :
              RowAppears(agg.data[Offset(list, k) + n], agg.columns,
                         FrameOf(list[k]).data[n], FrameOf(list[k]).columns)

\* C1 as stated: whatever pages fail and in whatever order the tasks finish,
\* scrape_pages gives an aggregate with as many rows as the successful pages
\* have data rows, each page's rows one block in the page's row order, the
\* blocks in the order the tasks finished; the empty frame if no page
\* succeeded.
C1_AggregateHasAllRows ==
    (Returned /\ ~SelectRaises(req.css_selector)) =>
        /\ ~aggregate.raised
        /\ Len(aggregate.df.data) = SumOver(Requested(req))
        /\ BlocksInOrder(aggregate.df, SuccessfulIn(order))
        /\ (\A p \in Requested(req) : ~Succeeded(p)) => aggregate.df = EmptyFrame

\* C2 as stated: whatever the header lists of the successful pages, the
\* aggregate has exactly the columns of the first successful page (the
\* first collected), and every row has that many cells.
C2_FirstPageColumns ==
    (Returned /\ ~aggregate.raised /\ SuccessfulIn(collected) # <<>>) =>
        LET first == FrameOf(SuccessfulIn(collected)[1])
        IN  /\ aggregate.df.columns = first.columns
            /\ \A k \in 1..Len(aggregate.df.data) :
                  Len(aggregate.df.data[k]) = Len(first.columns)

\* The column names of a frame, as a set.
Names(columns) == { columns[i] : i \in 1..Len(columns) }

\* C3: a request is answered 400 exactly when end_page < start_page or the
\* page count exceeds max_pages_per_request, and then no task was submitted
\* and no fetch issued; for every other request the tasks are submitted one
\* by one in page order from start_page, no other page ever has a task, and
\* once the submission is over exactly the pages start_page..end_page have
\* one.
C3_Validation ==
    pc # "idle" =>
        IF Rejected(req)
        THEN /\ pc = "responded"
             /\ response.status = 400
             /\ futures = <<>>
             /\ \A p \in Pages : task[p] = "none"
             /\ fetch_log = <<>>
        ELSE /\ response.status # 400
             /\ \A i \in 1..Len(futures) : futures[i].page = req.start_page + i - 1
             /\ { p \in Pages : task[p] # "none" }
                   = { futures[i].page : i \in 1..Len(futures) }
             /\ { p \in Pages : task[p] # "none" } \subseteq Requested(req)
             /\ IF pc = "submitting"
                THEN Len(futures) < req.end_page - req.start_page + 1
                ELSE /\ Len(futures) = req.end_page - req.start_page + 1
                     /\ { p \in Pages : task[p] # "none" } = Requested(req)

\* C3 witness: a request with start_page <= end_page and more pages than
\* max_pages_per_request was answered 400.
C3_Witness ==
    /\ pc = "responded"
    /\ response.status = 400
    /\ req.start_page <= req.end_page
    /\ req.end_page - req.start_page + 1 = req.max_pages_per_request + 1

\* C4 as stated: a request that passed the checks is always answered 200;
\* with the rows-0 message exactly when no page gave a row, else with the
\* data and the aggregate's row count.
C4_Always200 ==
    (pc = "responded" /\ ~Rejected(req) /\ ~SelectRaises(req.css_selector)) =>
        /\ response.status = 200
        /\ (response.kind = "empty") <=> (\A p \in Requested(req) : RowsOf_(p) = 0)
        /\ response.kind # "empty" =>
              /\ response.kind = req.format
              /\ response.rows = SumOver(Requested(req))

\* The number of fetches of a URL.
FetchCount(url) == Cardinality({ k \in 1..Len(fetch_log) : fetch_log[k] = url })

\* C8: never more than `concurrency` tasks are held by workers, so never
\* more than that many fetches are in flight; a request that passed the
\* checks never has two tasks for a page and, once the submission is over,
\* has exactly one per requested page, each with a URL of its own; a URL is
\* fetched once when its task calls fetch_html and never again, so that
\* every URL was fetched exactly once when the handler answers.
C8_BoundedFetchOnce ==
    /\ Cardinality({ p \in Pages : task[p] = "fetching" }) <= req.concurrency
    /\ Cardinality(Held) <= req.concurrency
    /\ (pc # "idle" /\ ~Rejected(req)) =>
          /\ \A p \in Requested(req) :
                Cardinality({ i \in 1..Len(futures) : futures[i].page = p })
                    = IF pc = "submitting" /\ task[p] = "none" THEN 0 ELSE 1
          /\ \A i \in 1..Len(futures) : futures[i].page \in Requested(req)
          /\ \A i, j \in 1..Len(futures) :
                i # j => futures[i].url # futures[j].url
    /\ \A i \in 1..Len(futures) :
          FetchCount(futures[i].url) =
              IF task[futures[i].page] \in {"fetching", "done"} THEN 1 ELSE 0
    /\ Len(fetch_log) = Cardinality({ p \in Pages : task[p] \in {"fetching", "done"} })
    /\ (pc = "responded" /\ ~Rejected(req)) =>
          \A i \in 1..Len(futures) : FetchCount(futures[i].url) = 1

\* C8 witness: the pool is full (as many fetches in flight as the concurrency
\* of 2 allows) while a third task waits in the queue.
C8_Witness ==
    /\ req.concurrency = 2
    /\ Cardinality({ p \in Pages : task[p] = "fetching" }) = 2
    /\ \E p \in Pages : task[p] = "queued"

\* All column names of the successful pages.
AllNames == UNION { Names(FrameOf(p).columns) : p \in { q \in Pages : Succeeded(q) } }

\* A row as a mapping from column name to value (of a repeated name the
\* last column), with the missing value under the names of over it lacks.
RowMapping(row, columns, over) ==
    [c \in over |->
        IF c \in Names(columns)
        THEN row[CHOOSE i \in 1..Len(columns) :
                    /\ columns[i] = c
                    /\ \A j \in (i + 1)..Len(columns) : columns[j] # c]
        ELSE NaN]

\* The rows of the successful pages, each as <<page, row number>>.
PageRowRefs ==
    UNION { { <<p, n>> : n \in 1..Len(FrameOf(p).data) } :
              p \in { q \in Pages : Succeeded(q) } }

PageMapping(ref) ==
    RowMapping(FrameOf(ref[1]).data[ref[2]], FrameOf(ref[1]).columns, AllNames)

AggregateMapping(k) ==
    RowMapping(aggregate.df.data[k], aggregate.df.columns, AllNames)

\* C9: what scrape_pages gives depends on the pages' outcomes only, not on
\* the order the tasks finish or are collected in, nor on the concurrency:
\* it raises exactly when a task raised or two header lists differ while one
\* repeats a name; otherwise the aggregate has the names of all pages as its
\* column set, and every row mapping occurs in it as often as in the pages.
C9_OrderIndependent ==
    Returned =>
        LET ok == { p \in Pages : Succeeded(p) }
            mustRaise ==
                \/ \E p \in Requested(req) : outcome[p].raised
                \/ /\ \E p, q \in ok : FrameOf(p).columns # FrameOf(q).columns
                   /\ \E p \in ok : HasDuplicates(FrameOf(p).columns)
        IN  /\ aggregate.raised <=> mustRaise
            /\ ~aggregate.raised =>
                  /\ Names(aggregate.df.columns) = AllNames
                  /\ \A m \in { AggregateMapping(k) : k \in 1..Len(aggregate.df.data) }
                              \cup { PageMapping(ref) : ref \in PageRowRefs } :
                        Cardinality({ k \in 1..Len(aggregate.df.data) :
                                        AggregateMapping(k) = m })
                          = Cardinality({ ref \in PageRowRefs : PageMapping(ref) = m })

\* C9 witness: pages 1 and 2 gave frames with different header lists and
\* were collected in the order 2, 1, under a concurrency of 1.
C9_Witness ==
    /\ Returned
    /\ ~aggregate.raised
    /\ req.concurrency = 1
    /\ Succeeded(1) /\ Succeeded(2)
    /\ FrameOf(1).columns # FrameOf(2).columns
    /\ collected = <<2, 1>>

\* No task goes back or is withdrawn: queued tasks start, running tasks
\* finish, finished tasks stay finished.
NoTaskCancelled ==
    \A p \in Pages :
        /\ task[p] = "queued" => task'[p] \in {"queued", "running"}
        /\ task[p] = "running" => task'[p] \in {"running", "fetching"}
        /\ task[p] = "fetching" => task'[p] \in {"fetching", "done"}
        /\ task[p] = "done" => task'[p] = "done"

\* Some thread can take a step: a worker can start, fetch or finish a task,
\* or the handler's thread can go on.
CanProgress ==
    \/ \E i \in 1..Len(futures) : CanStartTask(i)
    \/ Held # {}
    \/ pc \in {"submitting", "submitted"}
    \/ \E p \in Pages : CanCollect(p)
    \/ CanConcat
    \/ CanUnwind
    \/ pc = "returned"

\* What is left to do before the answer: the steps of the tasks, the futures
\* to collect and the stages of the handler's thread.
StageRank ==
    CASE pc = "submitting" -> 5
      [] pc = "submitted" -> 4
      [] pc = "collecting" -> 3
      [] pc = "unwinding" -> 2
      [] pc = "returned" -> 1
      [] OTHER -> 0

Remaining ==
    5 * Cardinality({ p \in Requested(req) : task[p] = "none" })
      + 3 * Cardinality({ p \in Pages : task[p] = "queued" })
      + 2 * Cardinality({ p \in Pages : task[p] = "running" })
      + Cardinality({ p \in Pages : task[p] = "fetching" })
      + (Len(futures) - Len(collected))
      + StageRank

\* C10: scrape_pages returns or raises, and the handler answers, only when
\* every submitted task is done; no submitted task is cancelled; and a
\* request that passed the checks is answered provided every fetch comes
\* back: until the answer some thread can always take a step, and every
\* step brings the answer nearer.
C10_RespondsAfterAllTasks ==
    /\ [](pc \in {"returned", "responded"} =>
            /\ \A i \in 1..Len(futures) : task[futures[i].page] = "done"
            /\ \A p \in Pages : task[p] \in {"none", "done"})
    /\ [](pc \notin {"idle", "responded"} => CanProgress)
    /\ [][/\ NoTaskCancelled
          /\ pc # "idle" => (Remaining' < Remaining /\ Remaining' >= 0)]_vars

\* C10 witness: a task raised and was collected while another task was still
\* running: the handler is held in the pool's shutdown.
C10_Witness ==
    /\ pc = "unwinding"
    /\ \E p \in Pages : task[p] = "fetching"
    /\ \E p \in Pages : task[p] = "queued"

=============================================================================
